---- MODULE Spec2Model ----
(***************************************************************************)
(* zk_fee_profile (src/zkfeeapp.py): one run of main() as a state machine, *)
(* and the pure helpers pct, stats_bucket and sample_block_fees as         *)
(* operators.                                                              *)
(*                                                                         *)
(* Numbers.  Wei amounts are Python ints and are integers here.  A Gwei    *)
(* float f is held as the integer 2 * 10^9 * f ("half-wei units"): every   *)
(* float the program puts into its collections is wei / 10^9, and the only *)
(* arithmetic done on them is the mean of two of them in                   *)
(* statistics.median, so every value is a whole number of these units.     *)
(* round(f, 4) is held as a whole number of 10^-4 Gwei.  The block-time    *)
(* average is a quotient of two ints and is held as [num, den].            *)
(*                                                                         *)
(* Not modelled: wall-clock values (timingSec, generatedAtUtc, latency),   *)
(* the choice among the three stdout layouts of main (all of them end with *)
(* the same JSON payload), and the placeholder-key warning of main.        *)
(***************************************************************************)
EXTENDS Integers, Sequences, FiniteSets, TLC

(* ------------------------------ bounds -------------------------------- *)

\* --blocks ranges over -1 .. MaxBlocks
MaxBlocks == 3

\* --step ranges over 0 .. MaxStep
MaxStep == 2

\* block numbers (the node's tip, --head) range up to MaxHead
MaxHead == 3

\* --head ranges down to -MaxNegHead
MaxNegHead == 2

\* longest value list handed to pct / stats_bucket on their own
MaxLen == 3

\* most transactions in a block handed to sample_block_fees on its own
MaxTxs == 2

(* ------------------------- program constants -------------------------- *)

\* Web3.from_wei(x, "gwei"): wei per Gwei
GweiWei == 1000000000

\* round(..., 4) of the bucket fields
BucketDigits == 4

\* round(avg_block_time, 3)
AvgDigits == 3

\* progress line every 16th sampled block
ProgressEvery == 16

\* NETWORKS: chain id -> name; anything else is "Unknown (chain ID n)"
NETWORKS ==
    (1 :> "Ethereum Mainnet") @@ (11155111 :> "Sepolia Testnet")
    @@ (10 :> "Optimism") @@ (137 :> "Polygon") @@ (42161 :> "Arbitrum One")
    @@ (8453 :> "Base") @@ (43114 :> "Avalanche C-Chain")

network_name(cid) ==
    IF cid \in DOMAIN NETWORKS THEN <<NETWORKS[cid]>>
    ELSE <<"Unknown (chain ID ", cid, ")">>

(* ------------------------------ numbers ------------------------------- *)

Max(a, b) == IF a >= b THEN a ELSE b

Min(a, b) == IF a <= b THEN a ELSE b

\* Python's round() on a / b, a >= 0, b > 0: nearest integer, ties to even
RoundHalfEven(a, b) ==
    LET f == a \div b
        r == a % b
    IN  IF 2 * r < b THEN f
        ELSE IF 2 * r > b THEN f + 1
        ELSE IF f % 2 = 0 THEN f ELSE f + 1

\* half-wei units in one Gwei
UnitsPerGwei == 2 * GweiWei

\* float(Web3.from_wei(w, "gwei")) in half-wei units
FromWeiGwei(w) == 2 * w

\* round(x, 4) of a Gwei float x >= 0, as a count of 10^-4 Gwei
Round4(x) == RoundHalfEven(x, UnitsPerGwei \div (10 ^ BucketDigits))

(* --------------------------- list helpers ----------------------------- *)

RECURSIVE InsertSorted(_, _)
InsertSorted(s, x) ==
    IF s = <<>> THEN <<x>>
    ELSE IF x < Head(s) THEN <<x>> \o s
    ELSE <<Head(s)>> \o InsertSorted(Tail(s), x)

\* sorted(values): ascending
RECURSIVE sorted(_)
sorted(values) ==
    IF values = <<>> THEN <<>>
    ELSE InsertSorted(sorted(SubSeq(values, 1, Len(values) - 1)), values[Len(values)])

\* min(values), max(values) of a non-empty list
RECURSIVE min(_)
min(values) ==
    IF Len(values) = 1 THEN values[1] ELSE Min(values[1], min(Tail(values)))

RECURSIVE max(_)
max(values) ==
    IF Len(values) = 1 THEN values[1] ELSE Max(values[1], max(Tail(values)))

\* statistics.median of a non-empty list: the middle element, or the mean of
\* the two middle elements
median(values) ==
    LET data == sorted(values)
        n == Len(data)
        i == n \div 2
    IN  IF n % 2 = 1 THEN data[i + 1] ELSE (data[i] + data[i + 1]) \div 2

(* ------------------------------- pct ---------------------------------- *)

\* q = max(0.0, min(1.0, q)), q a fraction [num, den] with den > 0
ClampQ(q) ==
    IF q.num < 0 THEN [num |-> 0, den |-> 1]
    ELSE IF q.num > q.den THEN [num |-> 1, den |-> 1]
    ELSE q

\* idx = int(round(q * (len(sorted_vals) - 1)))
\* variant: int(q * (n - 1)), truncating where the code rounds
PctIndexFloor(n, q) == (q.num * (n - 1)) \div q.den

PctIndex(n, q) == RoundHalfEven(q.num * (n - 1), q.den)

\* variant: the index is taken in the list as given, not in the sorted one
pctUnsorted(values, q) ==
    IF values = <<>> THEN 0
    ELSE values[PctIndex(Len(values), ClampQ(q)) + 1]

pct(values, q) ==
    IF values = <<>> THEN 0
    ELSE LET qc == ClampQ(q)
             sorted_vals == sorted(values)
             idx == PctIndex(Len(sorted_vals), qc)
         IN  sorted_vals[idx + 1]

\* the q of the p95 field
Q95 == [num |-> 95, den |-> 100]

(* --------------------------- stats_bucket ----------------------------- *)

stats_bucket(values) ==
    IF values = <<>>
    THEN [p50 |-> 0, p95 |-> 0, min |-> 0, max |-> 0, count |-> 0]
    ELSE [p50 |-> Round4(median(values)),
          p95 |-> Round4(pct(values, Q95)),
          min |-> Round4(min(values)),
          max |-> Round4(max(values)),
          count |-> Len(values)]

(* ------------------------- sample_block_fees -------------------------- *)

\* tx.get(key, 0) or 0 / getattr(tx, key, 0) or 0: a transaction is a
\* mapping that holds only the fields its type has
Field(tx, key) == IF key \in DOMAIN tx THEN tx[key] ELSE 0

\* variant: the tip of a legacy transaction is not floored at 0
TxFeesNoFloor(tx, bf) ==
    LET ttype == Field(tx, "type")
        gas_price == Field(tx, "gasPrice")
        mpp == Field(tx, "maxPriorityFeePerGas")
        mfp == Field(tx, "maxFeePerGas")
    IN  IF ttype = 2
        THEN [eff |-> FromWeiGwei(Min(mfp, bf + mpp)), tip |-> FromWeiGwei(mpp)]
        ELSE [eff |-> FromWeiGwei(gas_price), tip |-> FromWeiGwei(gas_price - bf)]

\* one transaction's (effective price, tip) in Gwei
TxFees(tx, bf) ==
    LET ttype == Field(tx, "type")
        gas_price == Field(tx, "gasPrice")
        mpp == Field(tx, "maxPriorityFeePerGas")
        mfp == Field(tx, "maxFeePerGas")
    IN  IF ttype = 2
        THEN [eff |-> FromWeiGwei(Min(mfp, bf + mpp)), tip |-> FromWeiGwei(mpp)]
        ELSE [eff |-> FromWeiGwei(gas_price),
              tip |-> FromWeiGwei(Max(0, gas_price - bf))]

IsFeeMarketTx(tx) == Field(tx, "type") = 2

\* variant: only the type-2 branch appends, other transactions are skipped
sample_block_fees_type2_only(block, base_fee_wei) ==
    LET txs == SelectSeq(block.transactions, IsFeeMarketTx)
    IN  [eff_gwei |-> [i \in 1..Len(txs) |-> TxFees(txs[i], base_fee_wei).eff],
         tip_gwei |-> [i \in 1..Len(txs) |-> TxFees(txs[i], base_fee_wei).tip]]

\* (eff_gwei, tip_gwei) for the transactions of the block, in order
sample_block_fees(block, base_fee_wei) ==
    LET bf == base_fee_wei
        txs == block.transactions
    IN  [eff_gwei |-> [i \in 1..Len(txs) |-> TxFees(txs[i], bf).eff],
         tip_gwei |-> [i \in 1..Len(txs) |-> TxFees(txs[i], bf).tip]]

(* ------------------------------- state -------------------------------- *)

VARIABLES
    pc,              \* where main() is: "main", "connect", "resolve_head",
                     \* "walk", "summarize", "emit", "exit"; "idle" = no run
    args,            \* argparse namespace: blocks, step, head (<<>> = None)
    stderr,          \* diagnostics printed so far, in order
    stdout,          \* <<>>, or <<payload>> once the JSON is printed
    exit_status,     \* <<>> while running, <<0>> or <<1>> once exited
    exc,             \* <<>>, or <<e>>: the exception that ended the run
    head,            \* analyze_fees locals
    start_block,
    n,
    basefees,
    eff_prices,
    tips,
    sampled_blocks,
    newest,          \* <<>>, or <<timestamp of the header of head>>
    oldest,          \* <<>>, or <<timestamp of the header of start_block>>
    avg_block_time,
    result,          \* <<>>, or <<dict returned by analyze_fees>>
    rpc_log,         \* every request sent to the node, in order
    tx_seen,         \* transactions in the blocks the walk fetched
    swallowed,       \* failed requests whose exception was caught
    fnCall,          \* a helper called on its own: name, arguments, result
    fnArgs,
    fnRet

mainVars ==
    <<pc, args, stderr, stdout, exit_status, exc, head, start_block, n, basefees,
      eff_prices, tips, sampled_blocks, newest, oldest, avg_block_time, result, rpc_log,
      tx_seen, swallowed>>

fnVars == <<fnCall, fnArgs, fnRet>>

vars == <<mainVars, fnVars>>

None == <<>>

Some(x) == <<x>>

(* ---------------------------- environment ----------------------------- *)

\* what argparse can hand to main
ArgSet ==
    [blocks : -1..MaxBlocks,
     step : 0..MaxStep,
     head : {None} \cup {Some(h) : h \in -MaxNegHead..MaxHead}]

\* w3.eth.block_number answers
BlockNumbers == 0..MaxHead

\* w3.eth.chain_id answers: a known network and an unknown one
ChainIds == {1, 999999}

\* blocks the node can answer get_block(n, full_transactions=True) with; a
\* block of a chain without a fee market has no baseFeePerGas
FullBlocks ==
    { [transactions |-> <<>>],
      [baseFeePerGas |-> 80000000,
       transactions |->
           << [type |-> 2, maxFeePerGas |-> 100000000,
               maxPriorityFeePerGas |-> 5000000, gasPrice |-> 85000000] >>],
      [baseFeePerGas |-> 80000000,
       transactions |->
           << [type |-> 0, gasPrice |-> 50000000],
              [type |-> 2, maxFeePerGas |-> 60000000,
               maxPriorityFeePerGas |-> 5000000] >>] }

\* timestamps a header can carry
Timestamps == {1000, 1012, 1030}

\* what a failed request raises: web3 names the block only when the node
\* answered that it has no such block; a transport failure (the 25 s timeout,
\* a refused connection) carries no block number. The program adds nothing.
RpcErrors(op, number) ==
    IF op = "get_block"
    THEN { [op |-> op, kind |-> "BlockNotFound", names |-> Some(number)],
           [op |-> op, kind |-> "TransportError", names |-> None] }
    ELSE { [op |-> op, kind |-> "TransportError", names |-> None] }

\* variant: the failure is reported and the run goes on
RaiseAndGoOn(e) ==
    /\ exc' = Some(e)
    /\ stderr' = Append(stderr, "traceback")
    /\ UNCHANGED <<exit_status, pc>>

\* an uncaught exception: traceback on stderr, exit status 1
Raise(e) ==
    /\ exc' = Some(e)
    /\ stderr' = Append(stderr, "traceback")
    /\ exit_status' = Some(1)
    /\ pc' = "exit"

(* ------------------------------- main --------------------------------- *)

\* variant: only --blocks is checked
InvalidArgsBlocksOnly(a) == a.blocks <= 0

\* main line 208: args.blocks <= 0 or args.step <= 0
InvalidArgs(a) == a.blocks <= 0 \/ a.step <= 0

\* main, lines 207-213: parse_args and the check of --blocks and --step
MainArgs ==
    /\ pc = "main"
    /\ IF InvalidArgs(args)
       THEN /\ stderr' = Append(stderr, "--blocks and --step must both be > 0")
            /\ exit_status' = Some(1)
            /\ pc' = "exit"
       ELSE /\ stderr' = stderr \o <<"started", "using rpc">>
            /\ pc' = "connect"
            /\ UNCHANGED exit_status
    /\ UNCHANGED <<args, stdout, exc, head, start_block, n, basefees, eff_prices,
                   tips, sampled_blocks, newest, oldest, avg_block_time, result,
                   rpc_log, tx_seen, swallowed, fnVars>>

\* variant: connect gives up when the chain info cannot be read
ConnectOutcomesStrict ==
    { [sent |-> << <<"is_connected">> >>,
       says |-> "failed to connect", caught |-> {}, returns |-> FALSE],
      [sent |-> << <<"is_connected">>, <<"chain_id">> >>,
       says |-> "connected (chain info unavailable)",
       caught |-> {"connect.chain_id"}, returns |-> FALSE],
      [sent |-> << <<"is_connected">>, <<"chain_id">>, <<"block_number">> >>,
       says |-> "connected (chain info unavailable)",
       caught |-> {"connect.block_number"}, returns |-> FALSE],
      [sent |-> << <<"is_connected">>, <<"chain_id">>, <<"block_number">> >>,
       says |-> "connected to network",
       caught |-> {}, returns |-> TRUE] }

\* one way connect(rpc) can go: the requests it sends, the line it prints,
\* the request whose exception it catches, and whether it returns
ConnectOutcomes ==
    { [sent |-> << <<"is_connected">> >>,
       says |-> "failed to connect", caught |-> {}, returns |-> FALSE],
      [sent |-> << <<"is_connected">>, <<"chain_id">> >>,
       says |-> "connected (chain info unavailable)",
       caught |-> {"connect.chain_id"}, returns |-> TRUE],
      [sent |-> << <<"is_connected">>, <<"chain_id">>, <<"block_number">> >>,
       says |-> "connected (chain info unavailable)",
       caught |-> {"connect.block_number"}, returns |-> TRUE],
      [sent |-> << <<"is_connected">>, <<"chain_id">>, <<"block_number">> >>,
       says |-> "connected to network",
       caught |-> {}, returns |-> TRUE] }

\* main line 215, connect lines 40-61
Connect ==
    /\ pc = "connect"
    /\ \E o \in ConnectOutcomes :
        /\ rpc_log' = rpc_log \o o.sent
        /\ stderr' = Append(stderr, o.says)
        /\ swallowed' = swallowed \cup o.caught
        /\ IF o.returns
           THEN pc' = "resolve_head" /\ UNCHANGED exit_status
           ELSE pc' = "exit" /\ exit_status' = Some(1)
    /\ UNCHANGED <<args, stdout, exc, head, start_block, n, basefees, eff_prices,
                   tips, sampled_blocks, newest, oldest, avg_block_time, result,
                   tx_seen, fnVars>>

\* variant: head - blocks, one block too many
StartBlockOffByOne(h, blocks) == Max(0, h - blocks)

\* start_block = max(0, head - blocks + 1)
StartBlock(h, blocks) == Max(0, h - blocks + 1)

\* analyze_fees lines 120-129, once head is known
EnterWalk(h) ==
    /\ head' = h
    /\ start_block' = StartBlock(h, args.blocks)
    /\ basefees' = <<>>
    /\ eff_prices' = <<>>
    /\ tips' = <<>>
    /\ sampled_blocks' = 0
    /\ n' = h
    /\ stderr' = Append(stderr, "sampling")
    /\ pc' = "walk"
    /\ UNCHANGED <<exit_status, exc>>

\* analyze_fees lines 120-129: head is --head, or the node's latest block
ResolveHead ==
    /\ pc = "resolve_head"
    /\ \/ /\ args.head # None
          /\ EnterWalk(args.head[1])
          /\ UNCHANGED rpc_log
       \/ /\ args.head = None
          /\ rpc_log' = Append(rpc_log, <<"block_number">>)
          /\ \E latest \in BlockNumbers : EnterWalk(latest)
       \/ /\ args.head = None
          /\ rpc_log' = Append(rpc_log, <<"block_number">>)
          /\ \E e \in RpcErrors("block_number", 0) : Raise(e)
          /\ UNCHANGED <<head, start_block, n, basefees, eff_prices, tips,
                         sampled_blocks>>
    /\ UNCHANGED <<args, stdout, newest, oldest, avg_block_time, result, tx_seen,
                   swallowed, fnVars>>

\* the next n of range(head, start_block - 1, -step)
NextN(cur, step) == cur - step

\* variant: range(head, start_block, -step), which leaves start_block out
InRangeExclusive(cur, start) == cur > start

\* the loop of range(head, start_block - 1, -step) goes on
InRange(cur, start) == cur > start - 1

\* analyze_fees lines 130-141: one iteration of the walk
WalkStep ==
    /\ pc = "walk"
    /\ InRange(n, start_block)
    /\ rpc_log' = Append(rpc_log, <<"get_block", n, TRUE>>)
    /\ \/ \E blk \in FullBlocks :
            LET bf_wei == Field(blk, "baseFeePerGas")
                fees == sample_block_fees(blk, bf_wei)
            IN  /\ basefees' = Append(basefees, FromWeiGwei(bf_wei))
                /\ eff_prices' = eff_prices \o fees.eff_gwei
                /\ tips' = tips \o fees.tip_gwei
                /\ sampled_blocks' = sampled_blocks + 1
                /\ stderr' = IF (sampled_blocks + 1) % ProgressEvery = 0
                             THEN Append(stderr, "progress") ELSE stderr
                /\ tx_seen' = tx_seen + Len(blk.transactions)
                /\ n' = NextN(n, args.step)
                /\ UNCHANGED <<pc, exit_status, exc>>
       \/ /\ \E e \in RpcErrors("get_block", n) : Raise(e)
          /\ UNCHANGED <<n, basefees, eff_prices, tips, sampled_blocks, tx_seen>>
    /\ UNCHANGED <<args, stdout, head, start_block, newest, oldest,
                   avg_block_time, result, swallowed, fnVars>>

\* variant: dt / span_blocks without the max(0.0, ...)
AvgBlockTimeNoFloor(newest_ts, oldest_ts, h, start) ==
    [num |-> newest_ts - oldest_ts, den |-> Max(1, h - start)]

\* dt, span_blocks and avg_block_time = max(0.0, dt / span_blocks)
AvgBlockTime(newest_ts, oldest_ts, h, start) ==
    LET dt == newest_ts - oldest_ts
        span_blocks == Max(1, h - start)
    IN  [num |-> Max(0, dt), den |-> span_blocks]

\* 0.0
Zero == [num |-> 0, den |-> 1]

\* analyze_fees lines 143-155: the loop is over; the two header requests,
\* either of which may fail, and the average block time
BlockTime ==
    /\ pc = "walk"
    /\ ~InRange(n, start_block)
    /\ IF sampled_blocks = 0
       THEN /\ avg_block_time' = Zero
            /\ UNCHANGED <<rpc_log, swallowed, newest, oldest>>
       ELSE \/ /\ rpc_log' = Append(rpc_log, <<"get_block", head, FALSE>>)
               /\ swallowed' = swallowed \cup {"header.newest"}
               /\ avg_block_time' = Zero
               /\ UNCHANGED <<newest, oldest>>
            \/ /\ rpc_log' = rpc_log \o << <<"get_block", head, FALSE>>,
                                          <<"get_block", start_block, FALSE>> >>
               /\ swallowed' = swallowed \cup {"header.oldest"}
               /\ \E newest_ts \in Timestamps : newest' = Some(newest_ts)
               /\ avg_block_time' = Zero
               /\ UNCHANGED oldest
            \/ /\ rpc_log' = rpc_log \o << <<"get_block", head, FALSE>>,
                                          <<"get_block", start_block, FALSE>> >>
               /\ \E newest_ts \in Timestamps, oldest_ts \in Timestamps :
                    \* the same block twice is the same header twice
                    /\ (head = start_block => newest_ts = oldest_ts)
                    /\ newest' = Some(newest_ts)
                    /\ oldest' = Some(oldest_ts)
                    /\ avg_block_time' =
                           AvgBlockTime(newest_ts, oldest_ts, head, start_block)
               /\ UNCHANGED swallowed
    /\ pc' = "summarize"
    /\ UNCHANGED <<args, stderr, stdout, exit_status, exc, head, start_block, n,
                   basefees, eff_prices, tips, sampled_blocks, result, tx_seen,
                   fnVars>>

\* round(avg_block_time, 3), as a count of 10^-3 s
Round3(avg) == RoundHalfEven(avg.num * (10 ^ AvgDigits), avg.den)

\* the dict analyze_fees returns
ResultDict(chain_id) ==
    [chainId |-> chain_id,
     network |-> network_name(chain_id),
     headBlock |-> head,
     oldestBlock |-> start_block,
     blockSpan |-> args.blocks,
     sampledBlocks |-> sampled_blocks,
     step |-> args.step,
     avgBlockTimeSec |-> Round3(avg_block_time),
     baseFeeGwei |-> stats_bucket(basefees),
     effectivePriceGwei |-> stats_bucket(eff_prices),
     tipGweiApprox |-> stats_bucket(tips)]

\* analyze_fees lines 157-182: the chain id request and the returned dict
Summarize ==
    /\ pc = "summarize"
    /\ rpc_log' = Append(rpc_log, <<"chain_id">>)
    /\ \/ /\ \E chain_id \in ChainIds : result' = Some(ResultDict(chain_id))
          /\ pc' = "emit"
          /\ UNCHANGED <<stderr, exit_status, exc>>
       \/ /\ \E e \in RpcErrors("chain_id", 0) : Raise(e)
          /\ UNCHANGED result
    /\ UNCHANGED <<args, stdout, head, start_block, n, basefees, eff_prices, tips,
                   sampled_blocks, newest, oldest, avg_block_time, tx_seen,
                   swallowed, fnVars>>

\* main lines 218-254: the payload is printed, whichever layout is chosen
Emit ==
    /\ pc = "emit"
    /\ stdout' = Some([mode |-> "zk_fee_profile", data |-> result[1]])
    /\ stderr' = Append(stderr, "done")
    /\ exit_status' = Some(0)
    /\ pc' = "exit"
    /\ UNCHANGED <<args, exc, head, start_block, n, basefees, eff_prices, tips,
                   sampled_blocks, newest, oldest, avg_block_time, result, rpc_log,
                   tx_seen, swallowed, fnVars>>

NoCall ==
    /\ fnCall = "none"
    /\ fnArgs = None
    /\ fnRet = None

\* a fresh process, before main()
NotStarted ==
    /\ stderr = <<>>
    /\ stdout = None
    /\ exit_status = None
    /\ exc = None
    /\ head = 0
    /\ start_block = 0
    /\ n = 0
    /\ basefees = <<>>
    /\ eff_prices = <<>>
    /\ tips = <<>>
    /\ sampled_blocks = 0
    /\ newest = None
    /\ oldest = None
    /\ avg_block_time = Zero
    /\ result = None
    /\ rpc_log = <<>>
    /\ tx_seen = 0
    /\ swallowed = {}

Init ==
    /\ pc = "main"
    /\ args \in ArgSet
    /\ NotStarted
    /\ NoCall

Next ==
    \/ MainArgs
    \/ Connect
    \/ ResolveHead
    \/ WalkStep
    \/ BlockTime
    \/ Summarize
    \/ Emit

Spec == Init /\ [][Next]_vars

(* ----------------------- the helpers on their own --------------------- *)

\* wei amounts whose Gwei values (and the means of two of them) are no
\* decimal ties at four places, except 31250000 wei = 2^-5 Gwei, a tie that
\* a float holds exactly
WeiValues == {0, 60000, 140000, 31250000}

GweiValues == {FromWeiGwei(w) : w \in WeiValues}

\* a list this long has a 0.95 rank below its last one
PadLen == 10

RECURSIVE SeqsUpTo(_, _)
SeqsUpTo(S, k) ==
    IF k = 0 THEN {<<>>}
    ELSE LET shorter == SeqsUpTo(S, k - 1)
         IN  shorter \cup {Append(s, x) : s \in {t \in shorter : Len(t) = k - 1}, x \in S}

\* value lists: the short ones, and each of them after PadLen equal values
ValueLists ==
    LET short == SeqsUpTo(GweiValues, MaxLen)
    IN  short \cup {[i \in 1..PadLen |-> p] \o s : p \in GweiValues, s \in short}

\* q of pct: inside [0, 1], on its ends, and outside
QValues ==
    { [num |-> -1, den |-> 2], [num |-> 0, den |-> 1], [num |-> 1, den |-> 4],
      [num |-> 1, den |-> 2], [num |-> 3, den |-> 4], Q95,
      [num |-> 1, den |-> 1], [num |-> 3, den |-> 2] }

TxFields == {"type", "gasPrice", "maxPriorityFeePerGas", "maxFeePerGas"}

\* transactions with every field present or absent; type 1 is neither legacy
\* nor fee-market
TxSet ==
    { [k \in S |-> full[k]] :
        full \in [type : {1, 2}, gasPrice : {50, 100},
                  maxPriorityFeePerGas : {5}, maxFeePerGas : {60, 100}],
        S \in SUBSET TxFields }

BaseFees == {0, 80}

InitFn ==
    /\ pc = "idle"
    /\ args = [blocks |-> 1, step |-> 1, head |-> None]
    /\ NotStarted
    /\ fnRet = None
    /\ \/ /\ fnCall = "pct"
          /\ fnArgs \in [values : ValueLists, q : QValues]
       \/ /\ fnCall = "stats_bucket"
          /\ fnArgs \in [values : ValueLists]
       \/ /\ fnCall = "sample_block_fees"
          /\ fnArgs \in [block : [transactions : SeqsUpTo(TxSet, MaxTxs)],
                         base_fee_wei : BaseFees]

CallPct ==
    /\ fnCall = "pct"
    /\ fnRet = None
    /\ fnRet' = Some(pct(fnArgs.values, fnArgs.q))
    /\ UNCHANGED <<mainVars, fnCall, fnArgs>>

CallStatsBucket ==
    /\ fnCall = "stats_bucket"
    /\ fnRet = None
    /\ fnRet' = Some(stats_bucket(fnArgs.values))
    /\ UNCHANGED <<mainVars, fnCall, fnArgs>>

CallSampleBlockFees ==
    /\ fnCall = "sample_block_fees"
    /\ fnRet = None
    /\ fnRet' = Some(sample_block_fees(fnArgs.block, fnArgs.base_fee_wei))
    /\ UNCHANGED <<mainVars, fnCall, fnArgs>>

NextFn ==
    \/ CallPct
    \/ CallStatsBucket
    \/ CallSampleBlockFees

SpecFn == InitFn /\ [][NextFn]_vars

(* ============================ properties ============================== *)

IsWalkFetch(r) == r[1] = "get_block" /\ r[3]

IsHeaderFetch(r) == r[1] = "get_block" /\ ~r[3]

\* block numbers requested with full transactions, in the order requested
WalkFetches ==
    LET f == SelectSeq(rpc_log, IsWalkFetch)
    IN  [i \in 1..Len(f) |-> f[i][2]]

\* block numbers requested as headers, in the order requested
HeaderFetches ==
    LET f == SelectSeq(rpc_log, IsHeaderFetch)
    IN  [i \in 1..Len(f) |-> f[i][2]]

\* analyze_fees has returned its dict
Returned == result # None

\* ceil(a / b) for b > 0
CeilDiv(a, b) == -((-a) \div b)

Abs(x) == IF x < 0 THEN -x ELSE x

ZeroBucket == [p50 |-> 0, p95 |-> 0, min |-> 0, max |-> 0, count |-> 0]

(* ------------------------------- C1 ----------------------------------- *)

\* the walk of a returned profile: start_block = max(0, head - blocks + 1);
\* the blocks fetched are exactly head, head - step, ... down to start_block,
\* strictly descending; sampledBlocks counts them and is at most `bound`
C1_Walk(bound) ==
    LET f == WalkFetches
    IN  /\ start_block = Max(0, head - args.blocks + 1)
        /\ {f[i] : i \in 1..Len(f)} =
               {k \in start_block..head : (head - k) % args.step = 0}
        /\ \A i \in 1..(Len(f) - 1) : f[i] > f[i + 1]
        /\ result[1].sampledBlocks = Len(f)
        /\ result[1].sampledBlocks <= bound

\* C1 as stated: for every head, blockCount >= 1 and step >= 1, the profile
\* fetches exactly head, head - step, ... >= startBlock, once each and in
\* descending order, and sampledBlocks is the number of fetches and at most
\* ceil((head - startBlock + 1) / step).
C1_AsStated ==
    Returned => C1_Walk(CeilDiv(head - start_block + 1, args.step))

\* C1, amended: the same, with the bound max(0, ceil((head - startBlock + 1)
\* / step)): a head below -1 makes the quotient negative while nothing is
\* fetched and sampledBlocks is 0.
C1_WalkExact ==
    Returned => C1_Walk(Max(0, CeilDiv(head - start_block + 1, args.step)))

\* a sparse walk: step 2, two blocks fetched
C1_Witness ==
    /\ Returned
    /\ args.step = 2
    /\ Len(WalkFetches) = 2
    /\ stdout # None

(* ------------------------------- C2 ----------------------------------- *)

C2_Run == args.blocks = 1 /\ args.step = 1 /\ Returned

C2_OneBlock ==
    /\ WalkFetches = <<head>>
    /\ (args.head # None => head = args.head[1])
    /\ result[1].headBlock = head
    /\ result[1].oldestBlock = head
    /\ result[1].sampledBlocks = 1

\* C2 as stated: with blockCount = 1 and step = 1, for every head (the latest
\* block number or any integer --head), exactly one block is visited and
\* headBlock = oldestBlock = head, sampledBlocks = 1.
C2_AsStated == C2_Run => C2_OneBlock

\* C2, amended: the same for every head >= 0.
C2_NonNegativeHead == (C2_Run /\ head >= 0) => C2_OneBlock

C2_Witness == C2_Run /\ args.head # None /\ head > 0 /\ stdout # None

(* ------------------------------- C3 ----------------------------------- *)

\* C3: for a non-empty V, min <= p50 <= p95 <= max, for the order statistics
\* themselves and for the rounded fields of the bucket.
C3_Ordered ==
    (fnCall = "stats_bucket" /\ fnRet # None /\ fnArgs.values # <<>>) =>
        LET V == fnArgs.values
            b == fnRet[1]
        IN  /\ min(V) <= median(V)
            /\ median(V) <= pct(V, Q95)
            /\ pct(V, Q95) <= max(V)
            /\ b.min <= b.p50
            /\ b.p50 <= b.p95
            /\ b.p95 <= b.max
            /\ b.count = Len(V)

\* a list on which the four statistics differ
C3_Witness ==
    /\ fnCall = "stats_bucket"
    /\ fnRet # None
    /\ fnArgs.values # <<>>
    /\ min(fnArgs.values) < median(fnArgs.values)
    /\ median(fnArgs.values) < pct(fnArgs.values, Q95)
    /\ pct(fnArgs.values, Q95) < max(fnArgs.values)
    /\ fnRet[1].p95 < fnRet[1].max

(* ------------------------------- C4 ----------------------------------- *)

\* C4: for a non-empty V and any q, pct returns a member of V, the one of
\* rank idx in ascending order, for an idx in 0..|V|-1 that is a nearest
\* integer to clamp(q) * (|V| - 1).
C4_NearestRank ==
    (fnCall = "pct" /\ fnRet # None /\ fnArgs.values # <<>>) =>
        LET V == fnArgs.values
            len == Len(V)
            r == fnRet[1]
            q == fnArgs.q
            num == IF q.num < 0 THEN 0 ELSE IF q.num > q.den THEN q.den ELSE q.num
            below == Cardinality({i \in 1..len : V[i] < r})
            upto == Cardinality({i \in 1..len : V[i] <= r})
        IN  /\ \E i \in 1..len : V[i] = r
            /\ \E idx \in 0..(len - 1) :
                /\ 2 * Abs(idx * q.den - num * (len - 1)) <= q.den
                /\ below <= idx
                /\ idx < upto

\* q above 1 on a list whose largest element is not its first
C4_Witness ==
    /\ fnCall = "pct"
    /\ fnRet # None
    /\ fnArgs.q.num > fnArgs.q.den
    /\ Len(fnArgs.values) >= 2
    /\ fnRet[1] > fnArgs.values[1]

(* ------------------------------- C5 ----------------------------------- *)

\* the claim's derivation, in wei, fields that are absent read as 0
C5_Read(tx, key) == IF key \in DOMAIN tx THEN tx[key] ELSE 0

C5_EffWei(tx, base) ==
    IF C5_Read(tx, "type") = 2
    THEN Min(C5_Read(tx, "maxFeePerGas"), base + C5_Read(tx, "maxPriorityFeePerGas"))
    ELSE C5_Read(tx, "gasPrice")

C5_TipWei(tx, base) ==
    IF C5_Read(tx, "type") = 2
    THEN C5_Read(tx, "maxPriorityFeePerGas")
    ELSE Max(0, C5_Read(tx, "gasPrice") - base)

\* C5: sample_block_fees yields, per transaction and in order, the Gwei
\* value of effectiveWei and of tipWei as the claim derives them.
C5_Derivation ==
    (fnCall = "sample_block_fees" /\ fnRet # None) =>
        LET txs == fnArgs.block.transactions
            base == fnArgs.base_fee_wei
            out == fnRet[1]
            unitsPerWei == UnitsPerGwei \div GweiWei
        IN  /\ Len(out.eff_gwei) = Len(txs)
            /\ Len(out.tip_gwei) = Len(txs)
            /\ \A i \in 1..Len(txs) :
                /\ out.eff_gwei[i] = unitsPerWei * C5_EffWei(txs[i], base)
                /\ out.tip_gwei[i] = unitsPerWei * C5_TipWei(txs[i], base)

\* the two examples: type 2 with maxFee 100, priority 5 and legacy with
\* gasPrice 50, base fee 80: (85, 5) and (50, 0) wei
C5_Witness ==
    /\ fnCall = "sample_block_fees"
    /\ fnRet # None
    /\ fnArgs.base_fee_wei = 80
    /\ fnArgs.block.transactions =
           << [type |-> 2, maxFeePerGas |-> 100, maxPriorityFeePerGas |-> 5],
              [gasPrice |-> 50] >>
    /\ fnRet[1].eff_gwei = <<FromWeiGwei(85), FromWeiGwei(50)>>
    /\ fnRet[1].tip_gwei = <<FromWeiGwei(5), FromWeiGwei(0)>>

(* ------------------------------- C6 ----------------------------------- *)

\* C6: in a returned profile baseFeeGwei.count = sampledBlocks = the number
\* of blocks fetched, effectivePriceGwei.count = tipGweiApprox.count = the
\* number of transactions in those blocks, and a collection that stayed
\* empty gives the all-zero bucket.
C6_Counts ==
    Returned =>
        LET r == result[1]
        IN  /\ r.sampledBlocks = Len(WalkFetches)
            /\ r.baseFeeGwei.count = r.sampledBlocks
            /\ r.effectivePriceGwei.count = tx_seen
            /\ r.tipGweiApprox.count = tx_seen
            /\ (Len(WalkFetches) = 0 => r.baseFeeGwei = ZeroBucket)
            /\ (tx_seen = 0 => r.effectivePriceGwei = ZeroBucket)
            /\ (tx_seen = 0 => r.tipGweiApprox = ZeroBucket)

\* two blocks with three transactions between them
C6_Witness ==
    /\ Returned
    /\ result[1].sampledBlocks = 2
    /\ tx_seen = 3
    /\ stdout # None

(* ------------------------------- C7 ----------------------------------- *)

\* a request for a block of the walk has failed
WalkFetchFailed == exc # None /\ exc[1].op = "get_block"

\* the run ended at that request: it is the last one sent, nothing more can
\* happen, analyze_fees returned nothing and no JSON was printed
C7_Aborted ==
    /\ pc = "exit"
    /\ exit_status = Some(1)
    /\ rpc_log[Len(rpc_log)] = <<"get_block", n, TRUE>>
    /\ ~ENABLED Next
    /\ result = None
    /\ stdout = None

\* C7 as stated: a failed block fetch of the walk aborts the run with a
\* propagated error that names the failed block number; no further block is
\* fetched, no result is returned, no JSON is printed.
C7_AsStated == WalkFetchFailed => (C7_Aborted /\ exc[1].names = Some(n))

\* C7, amended: a failed block fetch of the walk aborts the run by letting
\* the RPC library's own exception through unchanged (it names the block
\* only when the library does); no further block is fetched, no result is
\* returned, no JSON is printed.
C7_AbortsUnchanged ==
    WalkFetchFailed =>
        /\ C7_Aborted
        /\ exc[1] \in RpcErrors("get_block", n)
        /\ Len(basefees) = sampled_blocks
        /\ Len(WalkFetches) = sampled_blocks + 1

\* the second block of a walk fails after the first was sampled
C7_Witness ==
    /\ WalkFetchFailed
    /\ sampled_blocks = 1
    /\ tx_seen > 0
    /\ exc[1].names = None

(* ------------------------------- C8 ----------------------------------- *)

ConnectLookups == {"connect.chain_id", "connect.block_number"}

HeaderLookups == {"header.newest", "header.oldest"}

\* C8 as stated: a chain-metadata lookup failure (chain id or latest block
\* number) is the one non-fatal failure: no other failure is survived, and
\* no run is aborted by such a lookup.
C8_AsStated ==
    /\ swallowed \subseteq ConnectLookups
    /\ (exc # None => exc[1].op \notin {"chain_id", "block_number"})

\* C8, amended: a chain-metadata lookup failure inside connect is non-fatal:
\* connect reports the chain info as unavailable and returns, and the run
\* goes on into analyze_fees, where it ends only by printing the JSON or by
\* a later exception. It is not the only failure survived (a failed header
\* fetch is too), and the same lookups made by analyze_fees are fatal.
C8_ConnectLookupNonFatal ==
    /\ (swallowed \cap ConnectLookups # {} =>
            /\ pc \notin {"main", "connect"}
            /\ \E i \in 1..Len(stderr) : stderr[i] = "connected (chain info unavailable)"
            /\ \A i \in 1..Len(stderr) : stderr[i] # "failed to connect"
            /\ (pc = "exit" => (stdout # None \/ exc # None)))
    /\ swallowed \subseteq (ConnectLookups \cup HeaderLookups)
    /\ (exc # None => (pc = "exit" /\ exit_status = Some(1) /\ stdout = None))

\* the chain id could not be read in connect, and the JSON was printed
C8_Witness ==
    /\ "connect.chain_id" \in swallowed
    /\ stdout # None
    /\ exit_status = Some(0)

(* ------------------------------- C9 ----------------------------------- *)

\* C9: with blockCount <= 0 or step <= 0 the run ends with status 1 and a
\* diagnostic, and at no time has any request been sent or any JSON printed.
C9_NoNetwork ==
    (args.blocks <= 0 \/ args.step <= 0) =>
        /\ rpc_log = <<>>
        /\ stdout = None
        /\ result = None
        /\ (pc # "main" =>
                /\ pc = "exit"
                /\ exit_status = Some(1)
                /\ stderr = <<"--blocks and --step must both be > 0">>
                /\ ~ENABLED Next)

\* --step 0 with a valid --blocks
C9_Witness ==
    /\ args.step = 0
    /\ args.blocks > 0
    /\ pc = "exit"

(* ------------------------------- C10 ---------------------------------- *)

\* the block-time step of analyze_fees is over
AfterBlockTime == pc \in {"summarize", "emit"} \/ Returned

\* C10: with no block visited, avg_block_time = 0 and no header is
\* requested; otherwise the header of head and then that of start_block are
\* requested, avg_block_time = max(0, dt / max(1, head - start_block)), and
\* 0 if either request failed, the run going on to the result all the same;
\* the average is never negative.
C10_BlockTime ==
    AfterBlockTime =>
        LET hf == HeaderFetches
            failed == swallowed \cap HeaderLookups
        IN  /\ avg_block_time.num >= 0
            /\ avg_block_time.den > 0
            /\ exc = None
            /\ (Returned => result[1].avgBlockTimeSec >= 0)
            /\ (sampled_blocks = 0 => (avg_block_time = Zero /\ hf = <<>>))
            /\ (sampled_blocks > 0 =>
                    /\ \/ hf = <<head, start_block>>
                       \/ hf = <<head>> /\ failed = {"header.newest"}
                    /\ IF failed # {}
                       THEN /\ avg_block_time = Zero
                            /\ (Returned => result[1].avgBlockTimeSec = 0)
                       ELSE /\ newest # None
                            /\ oldest # None
                            /\ avg_block_time.num * Max(1, head - start_block) =
                                   Max(0, newest[1] - oldest[1]) * avg_block_time.den)

\* step 2 leaves start_block unvisited, its header is older than head's
C10_Witness ==
    /\ Returned
    /\ args.step = 2
    /\ \A i \in 1..Len(WalkFetches) : WalkFetches[i] # start_block
    /\ HeaderFetches = <<head, start_block>>
    /\ newest # None
    /\ oldest # None
    /\ newest[1] > oldest[1]
    /\ result[1].avgBlockTimeSec > 0

====
